---- MODULE Spec2Model ----
(***************************************************************************)
(* Model of the retrieval engine of smart-doc-qa-rag:                      *)
(*   backend/services/embedding_service.py  (EmbeddingService)             *)
(*   backend/routers/qa_router.py           (upload / query / list / clear) *)
(* Strings are sequences of one-character strings; Python index and slice  *)
(* semantics (negative indices, clamping, IndexError) are kept.            *)
(***************************************************************************)
EXTENDS Integers, Sequences, FiniteSets, TLC

\* ------------------------------------------------------------------ bounds
\* longest text given to the chunker in ChunkSpec
MaxLen == 5
\* largest chunk_size given to the chunker in ChunkSpec
MaxChunkSize == 4
\* largest number of loop iterations followed in ChunkSpec
MaxIter == 4

\* ------------------------------------------------------- Python primitives
None == "None"
\* the value None of embedding_service.vector_store (Optional[FAISS])
NoStore == [is_none |-> TRUE]
\* no handler holds the event loop
Nobody == 0

Min(a, b) == IF a <= b THEN a ELSE b

\* characters of the modelled alphabet
Alphabet == {"a", ".", " "}

\* str.strip() removes these
IsSpace(c) == c \in {" ", "\n", "\t", "\r"}

\* the literal '.!?\n' of chunk_text
IsBoundary(c) == c \in {".", "!", "?", "\n"}

RECURSIVE lstrip(_)
lstrip(s) == IF s = <<>> THEN s
             ELSE IF IsSpace(Head(s)) THEN lstrip(Tail(s)) ELSE s

RECURSIVE rstrip(_)
rstrip(s) == IF s = <<>> THEN s
             ELSE IF IsSpace(s[Len(s)]) THEN rstrip(SubSeq(s, 1, Len(s) - 1)) ELSE s

strip(s) == rstrip(lstrip(s))

\* Python's text[i] is defined for -len <= i < len, IndexError otherwise
IndexOK(s, i) == -Len(s) <= i /\ i < Len(s)
PyIndex(s, i) == IF i < 0 THEN s[i + Len(s) + 1] ELSE s[i + 1]

\* one bound of a Python slice: negative counts from the end, then clamped
SliceBound(s, i) == IF i < 0 THEN (IF i + Len(s) < 0 THEN 0 ELSE i + Len(s))
                    ELSE Min(i, Len(s))
\* Python's text[a:b]
PySlice(s, a, b) == SubSeq(s, SliceBound(s, a) + 1, SliceBound(s, b))

\* ------------------------------------------------------------- chunk_text
\* the boundary search: for i in range(n): if text[end-i-1] in '.!?\n': end = end - i; break
\* result: [ok, end]; ok is FALSE when text[end-i-1] raises IndexError
RECURSIVE SnapEnd(_, _, _, _)
SnapEnd(text, end, i, n) ==
    IF i >= n THEN [ok |-> TRUE, end |-> end]
    ELSE IF ~IndexOK(text, end - i - 1) THEN [ok |-> FALSE, end |-> end]
    ELSE IF IsBoundary(PyIndex(text, end - i - 1)) THEN [ok |-> TRUE, end |-> end - i]
    ELSE SnapEnd(text, end, i + 1, n)

\* variant: the tentative end is one character further
WindowEndInclusive(text, chunk_size, start) ==
    LET end == start + chunk_size + 1
    IN  IF end < Len(text)
        THEN SnapEnd(text, end, 0, Min(100, chunk_size \div 2))
        ELSE [ok |-> TRUE, end |-> end]

\* end of the window that starts at start
WindowEnd(text, chunk_size, start) ==
    LET end == start + chunk_size
    IN  IF end < Len(text)
        THEN SnapEnd(text, end, 0, Min(100, chunk_size \div 2))
        ELSE [ok |-> TRUE, end |-> end]

\* variant: the next window starts one character after end - overlap
ChunkIterationSkips(text, chunk_size, overlap, st) ==
    IF ~(st.start < Len(text)) THEN [st EXCEPT !.pc = "return"]
    ELSE LET w == WindowEnd(text, chunk_size, st.start)
         IN  IF ~w.ok THEN [st EXCEPT !.pc = "raise"]
             ELSE LET chunk == strip(PySlice(text, st.start, w.end))
                      chunks == IF chunk # <<>> THEN Append(st.chunks, chunk)
                                ELSE st.chunks
                      start == w.end - overlap + 1
                  IN  [start |-> start, chunks |-> chunks,
                       pc |-> IF start >= Len(text) THEN "return" ELSE "while"]

\* one pass through the body of the while loop; st = [start, chunks, pc]
ChunkIteration(text, chunk_size, overlap, st) ==
    IF ~(st.start < Len(text)) THEN [st EXCEPT !.pc = "return"]
    ELSE LET w == WindowEnd(text, chunk_size, st.start)
         IN  IF ~w.ok THEN [st EXCEPT !.pc = "raise"]
             ELSE LET chunk == strip(PySlice(text, st.start, w.end))
                      chunks == IF chunk # <<>> THEN Append(st.chunks, chunk)
                                ELSE st.chunks
                      start == w.end - overlap
                  IN  [start |-> start, chunks |-> chunks,
                       pc |-> IF start >= Len(text) THEN "return" ELSE "while"]

\* variant: the short text is trimmed like the windows of a long one
ChunkEnterStripped(text, chunk_size) ==
    IF Len(text) <= chunk_size
    THEN [start |-> 0, chunks |-> <<strip(text)>>, pc |-> "return"]
    ELSE [start |-> 0, chunks |-> <<>>, pc |-> "while"]

\* state of chunk_text when it reaches the loop, or its early return
ChunkEnter(text, chunk_size) ==
    IF Len(text) <= chunk_size
    THEN [start |-> 0, chunks |-> <<text>>, pc |-> "return"]
    ELSE [start |-> 0, chunks |-> <<>>, pc |-> "while"]

\* the while loop of chunk_text, run to its end
RECURSIVE ChunkLoop(_, _, _, _)
ChunkLoop(text, chunk_size, overlap, st) ==
    IF st.pc # "while" THEN st
    ELSE ChunkLoop(text, chunk_size, overlap,
                   ChunkIteration(text, chunk_size, overlap, st))

\* chunk_text(text, chunk_size, overlap), for arguments with which it returns
chunk_text(text, chunk_size, overlap) ==
    ChunkLoop(text, chunk_size, overlap, ChunkEnter(text, chunk_size)).chunks

\* defaults of chunk_text's parameters
DefaultChunkSize == 1000
DefaultOverlap == 200

\* ------------------------------------------------------ embedding provider
\* dimension of the vectors of each provider
EmbeddingDimension(provider) == IF provider = "openai" THEN 1536 ELSE 384

\* text -> vector. The provider is an opaque model; it is represented by a
\* deterministic function of the text, the same for indexing and querying,
\* that maps different texts to equal or different vectors. A vector is its
\* dimension and two components that stand for its coordinates.
Embed(provider, text) ==
    [dim |-> EmbeddingDimension(provider),
     x |-> Len(text) % 3,
     y |-> IF text # <<>> /\ text[Len(text)] = "." THEN 1 ELSE 0]

\* squared Euclidean distance (IndexFlatL2)
L2(u, v) == (u.x - v.x) * (u.x - v.x) + (u.y - v.y) * (u.y - v.y)

\* --------------------------------------------------- create_vector_store
\* variant: the passages of a document are numbered from 1
DocumentPassagesOneBased(doc) ==
    LET chunks == chunk_text(doc.content, DefaultChunkSize, DefaultOverlap)
    IN  [i \in 1..Len(chunks) |->
            [page_content |-> chunks[i],
             metadata |-> [chunk_id |-> i, total_chunks |-> Len(chunks)]
                          @@ doc.metadata]]

\* variant: the metadata of the document is not copied, so that all passages
\* of a document share one dictionary and carry the tags of the last one
DocumentPassagesShared(doc) ==
    LET chunks == chunk_text(doc.content, DefaultChunkSize, DefaultOverlap)
    IN  [i \in 1..Len(chunks) |->
            [page_content |-> chunks[i],
             metadata |-> [chunk_id |-> Len(chunks) - 1, total_chunks |-> Len(chunks)]
                          @@ doc.metadata]]

\* lines 82-95: the passages of one document, tagged with chunk_id / total_chunks
DocumentPassages(doc) ==
    LET chunks == chunk_text(doc.content, DefaultChunkSize, DefaultOverlap)
    IN  [i \in 1..Len(chunks) |->
            [page_content |-> chunks[i],
             metadata |-> [chunk_id |-> i - 1, total_chunks |-> Len(chunks)]
                          @@ doc.metadata]]

RECURSIVE LangchainDocs(_)
LangchainDocs(documents) ==
    IF documents = <<>> THEN <<>>
    ELSE DocumentPassages(Head(documents)) \o LangchainDocs(Tail(documents))

\* variant: self.vector_store is assigned before the vectors are computed, so
\* that a failing provider leaves a store without vectors behind
create_vector_store_assign_first(self_vs, provider, documents, embed_ok, gen) ==
    LET langchain_docs == LangchainDocs(documents)
    IN  IF documents = <<>>
        THEN [exc |-> "ValueError: No documents provided", vector_store |-> self_vs]
        ELSE IF ~embed_ok \/ langchain_docs = <<>>
        THEN [exc |-> "embedding or index construction failed",
              vector_store |-> [gen |-> gen, vectors |-> <<>>,
                                docstore |-> langchain_docs]]
        ELSE [exc |-> None,
              vector_store |->
                 [gen |-> gen,
                  vectors |-> [i \in 1..Len(langchain_docs) |->
                                 Embed(provider, langchain_docs[i].page_content)],
                  docstore |-> langchain_docs]]

\* variant: an empty list of documents resets the store before the error
create_vector_store_reset_on_empty(self_vs, provider, documents, embed_ok, gen) ==
    LET langchain_docs == LangchainDocs(documents)
    IN  IF documents = <<>>
        THEN [exc |-> "ValueError: No documents provided", vector_store |-> NoStore]
        ELSE IF ~embed_ok \/ langchain_docs = <<>>
        THEN [exc |-> "embedding or index construction failed", vector_store |-> self_vs]
        ELSE [exc |-> None,
              vector_store |->
                 [gen |-> gen,
                  vectors |-> [i \in 1..Len(langchain_docs) |->
                                 Embed(provider, langchain_docs[i].page_content)],
                  docstore |-> langchain_docs]]

\* variant: the vectors of the index always come from the local model
create_vector_store_local_vectors(self_vs, provider, documents, embed_ok, gen) ==
    LET langchain_docs == LangchainDocs(documents)
    IN  IF documents = <<>>
        THEN [exc |-> "ValueError: No documents provided", vector_store |-> self_vs]
        ELSE IF ~embed_ok \/ langchain_docs = <<>>
        THEN [exc |-> "embedding or index construction failed", vector_store |-> self_vs]
        ELSE [exc |-> None,
              vector_store |->
                 [gen |-> gen,
                  vectors |-> [i \in 1..Len(langchain_docs) |->
                                 Embed("local", langchain_docs[i].page_content)],
                  docstore |-> langchain_docs]]

\* create_vector_store(documents) on a service whose vector_store is self_vs.
\* embed_ok: the provider answers; gen: identity of the FAISS object created.
\* Result: the exception raised (None if it returns) and self.vector_store
\* after the call.
create_vector_store(self_vs, provider, documents, embed_ok, gen) ==
    LET langchain_docs == LangchainDocs(documents)
    IN  IF documents = <<>>
        THEN [exc |-> "ValueError: No documents provided", vector_store |-> self_vs]
        ELSE IF ~embed_ok \/ langchain_docs = <<>>
        THEN [exc |-> "embedding or index construction failed", vector_store |-> self_vs]
        ELSE [exc |-> None,
              vector_store |->
                 [gen |-> gen,
                  vectors |-> [i \in 1..Len(langchain_docs) |->
                                 Embed(provider, langchain_docs[i].page_content)],
                  docstore |-> langchain_docs]]

\* ---------------------------------------------------- query_vector_store
\* entry ids of the store, 0..N-1
EntryIds(store) == 0..(Len(store.vectors) - 1)

\* (distance, id) order of two entries for a query vector
Closer(store, qv, i, j) ==
    \/ L2(qv, store.vectors[i + 1]) < L2(qv, store.vectors[j + 1])
    \/ L2(qv, store.vectors[i + 1]) = L2(qv, store.vectors[j + 1]) /\ i < j

\* FAISS.similarity_search_with_score: the k nearest entries of a flat L2
\* index, nearest first, as (document, score) pairs; asking for more than the
\* index holds returns all of it.
RECURSIVE Nearest(_, _, _, _)
Nearest(store, qv, ids, k) ==
    IF k <= 0 \/ ids = {} THEN <<>>
    ELSE LET best == CHOOSE i \in ids : \A j \in ids \ {i} : Closer(store, qv, i, j)
         IN  <<[id |-> best,
                doc |-> store.docstore[best + 1],
                score |-> L2(qv, store.vectors[best + 1])]>>
             \o Nearest(store, qv, ids \ {best}, k - 1)

\* variant: the first k entries in id order, not ranked by distance
similarity_search_unranked(store, provider, query, k) ==
    [n \in 1..Min(k, Len(store.vectors)) |->
        [id |-> n - 1,
         doc |-> store.docstore[n],
         score |-> L2(Embed(provider, query), store.vectors[n])]]

\* lines 100 and 122: the FAISS object embeds a query with the embedding
\* function it was given at its construction, that of the service's provider
QueryVector(provider, query) == Embed(provider, query)

similarity_search_with_score(store, provider, query, k) ==
    Nearest(store, QueryVector(provider, query), EntryIds(store), k)

\* query_vector_store(query, k): exc is the ValueError of an absent store, or
\* the failure of the provider to embed the query
query_vector_store(self_vs, provider, query, k, embed_ok) ==
    IF self_vs = NoStore
    THEN [exc |-> "ValueError: Vector store not initialized", results |-> <<>>]
    ELSE IF ~embed_ok
    THEN [exc |-> "embedding failed", results |-> <<>>]
    ELSE [exc |-> None,
          results |-> similarity_search_with_score(self_vs, provider, query, k)]

\* "\n\n---\n\n".join(parts); every part and the delimiter is one element
RECURSIVE Join(_)
Join(parts) ==
    IF parts = <<>> THEN <<>>
    ELSE IF Len(parts) = 1 THEN Head(parts)
    ELSE Head(parts) \o <<"\n\n---\n\n">> \o Join(Tail(parts))

\* variant: the parts of the context are joined from the last result to the
\* first
get_relevant_context_reversed(self_vs, provider, query, k, embed_ok) ==
    LET r == query_vector_store(self_vs, provider, query, k, embed_ok)
    IN  IF r.exc # None THEN [exc |-> r.exc, context |-> <<>>]
        ELSE IF r.results = <<>>
        THEN [exc |-> None, context |-> <<"No relevant context found.">>]
        ELSE [exc |-> None,
              context |-> Join([i \in 1..Len(r.results) |->
                  <<"[Source: ", r.results[Len(r.results) + 1 - i].doc.metadata.source,
                    "]\n">>
                  \o r.results[Len(r.results) + 1 - i].doc.page_content])]

\* get_relevant_context(query, k)
get_relevant_context(self_vs, provider, query, k, embed_ok) ==
    LET r == query_vector_store(self_vs, provider, query, k, embed_ok)
    IN  IF r.exc # None THEN [exc |-> r.exc, context |-> <<>>]
        ELSE IF r.results = <<>>
        THEN [exc |-> None, context |-> <<"No relevant context found.">>]
        ELSE [exc |-> None,
              context |-> Join([i \in 1..Len(r.results) |->
                  <<"[Source: ", r.results[i].doc.metadata.source, "]\n">>
                  \o r.results[i].doc.page_content])]

\* ---------------------------------------------------------------- router
\* lines 143-151: the source entries of a query response
Sources(results) ==
    [i \in 1..Len(results) |->
        [source |-> results[i].doc.metadata.source,
         chunk_id |-> results[i].doc.metadata.chunk_id,
         similarity_score |-> results[i].score,
         preview |-> IF Len(results[i].doc.page_content) > 200
                     THEN PySlice(results[i].doc.page_content, 0, 200) \o <<"...">>
                     ELSE results[i].doc.page_content]]

\* variant: the router does not test for a missing store
NoVectorStoreUnchecked(vs) == FALSE

\* line 131: the router's test for "no documents uploaded yet"
NoVectorStore(vs) == vs = NoStore

\* lines 69-74
DocMetadata(file, stamp) ==
    [source |-> file.filename, file_type |-> file.ext,
     size |-> file.size, upload_timestamp |-> stamp]

\* variant: one record is appended for every chunk of the document
AppendDocInfoPerChunk(docs, file, metadata, parsed_content) ==
    LET n == Len(chunk_text(parsed_content, DefaultChunkSize, DefaultOverlap))
        info == [filename |-> file.filename, metadata |-> metadata,
                 chunks |-> n, content_length |-> Len(parsed_content)]
    IN  docs \o [i \in 1..n |-> info]

\* lines 96-105: uploaded_documents after the append of the upload's record
AppendDocInfo(docs, file, metadata, parsed_content) ==
    Append(docs,
           [filename |-> file.filename,
            metadata |-> metadata,
            chunks |-> Len(chunk_text(parsed_content, DefaultChunkSize, DefaultOverlap)),
            content_length |-> Len(parsed_content)])

\* variant: a handler can be suspended between any two of its steps
SuspendsAnywhere(label) == TRUE

\* the points at which a handler gives the event loop to other handlers:
\* the single await of the router, "await file.read()" in upload_document
Suspends(label) == label = "u_await"

\* ------------------------------------------------------------------ state
VARIABLES
    \* a run of chunk_text (ChunkSpec)
    c_text, c_size, c_overlap, c_st, c_iter,
    c_spans,             \* the windows cut so far: start, end, index in chunks
    \* direct calls of the service (ServiceSpec)
    svc,                 \* the last call, its arguments and its outcome
    \* the answer generator (AnswerSpec)
    ag,                  \* its pipeline, its loading and its last call
    \* the service (Spec)
    provider,            \* EmbeddingService.embeddings: "openai" or "local"
    vector_store,        \* embedding_service.vector_store
    uploaded_documents,  \* qa_router.uploaded_documents
    temp_files,          \* temporary files on disk, named by their request
    req,                 \* the handler invocations and their local variables
    running,             \* the handler that holds the event loop, or Nobody
    next_gen,            \* identity given to the next FAISS object
    ok_uploads,          \* successful uploads since start-up or the last clear
    log                  \* the completed calls, in order of completion

cvars == <<c_text, c_size, c_overlap, c_st, c_iter, c_spans>>

svars == <<provider, vector_store, uploaded_documents, temp_files, req,
           running, next_gen, ok_uploads, log>>

vars == <<c_text, c_size, c_overlap, c_st, c_iter, c_spans, svc, ag,
          provider, vector_store, uploaded_documents, temp_files, req,
          running, next_gen, ok_uploads, log>>

\* ----------------------------------------------------- inputs of the service
\* number of requests made to the service
MaxReq == 3

Procs == 1..MaxReq

\* a text longer than chunk_size, with sentence ends that make the window snap
LongText == [i \in 1..1100 |-> IF i % 100 = 95 THEN "."
                               ELSE IF i % 10 = 0 THEN " " ELSE "a"]

\* the files a client uploads; read: whether the bytes are read from the
\* client and written to the temporary file, or that fails; content is the
\* text parse_file extracts
File(f) ==
    CASE f = "A" -> [filename |-> "a.txt", ext |-> ".txt", size |-> 3,
                     read |-> "ok", parse |-> "ok", content |-> <<"a", "a", ".">>]
      [] f = "B" -> [filename |-> "b.txt", ext |-> ".txt", size |-> 1100,
                     read |-> "ok", parse |-> "ok", content |-> LongText]
      [] f = "Blank" -> [filename |-> "blank.txt", ext |-> ".txt", size |-> 2,
                     read |-> "ok", parse |-> "ok", content |-> <<" ", "\n">>]
      [] f = "Empty" -> [filename |-> "empty.txt", ext |-> ".txt", size |-> 0,
                     read |-> "ok", parse |-> "ok", content |-> <<>>]
      [] f = "Corrupt" -> [filename |-> "c.pdf", ext |-> ".pdf", size |-> 4,
                     read |-> "ok", parse |-> "fail", content |-> <<>>]
      [] f = "Unreadable" -> [filename |-> "e.txt", ext |-> ".txt", size |-> 4,
                     read |-> "fail", parse |-> "ok", content |-> <<"a">>]
      [] f = "Xyz" -> [filename |-> "d.xyz", ext |-> ".xyz", size |-> 4,
                     read |-> "ok", parse |-> "ok", content |-> <<"a">>]
      [] f = "NoName" -> [filename |-> "", ext |-> "", size |-> 4,
                     read |-> "ok", parse |-> "ok", content |-> <<"a">>]

Files == {"A", "B", "Blank", "Empty", "Corrupt", "Unreadable", "Xyz", "NoName"}

\* variant: the documents of the list are indexed again, from the text of their
\* files, together with the new one
DocumentsToIndexAll(docs, document_chunk) ==
    [i \in 1..Len(docs) |->
        [content |-> File(CHOOSE f \in Files :
                             File(f).filename = docs[i].filename).content,
         metadata |-> docs[i].metadata]]
    \o <<document_chunk>>

\* lines 89-93: the documents handed to create_vector_store by an upload
DocumentsToIndex(docs, document_chunk) == <<document_chunk>>

\* the query texts and the values of k of the query requests
Queries == {<<"a", "a", "a", ".">>}
Ks == {1, 3}

SupportedExtensions == {".pdf", ".docx", ".txt"}

\* whether the provider answers a call: the local model always does, the
\* remote one may fail
EmbedOutcomes == IF provider = "openai" THEN BOOLEAN ELSE {TRUE}

IdleReq == [kind |-> None, pc |-> "idle", file |-> None, parsed_content |-> <<>>,
            branch |-> None, query |-> <<>>, k |-> 0, context |-> <<>>,
            ctx_gen |-> 0, src_gen |-> 0, qv_dims |-> {}, had_ingest |-> FALSE,
            writes |-> {}, response |-> [status |-> 0]]

\* a request is taken up after the requests before it
MayStart(p) == req[p].pc = "idle" /\ running = Nobody
               /\ (IF p = 1 THEN TRUE ELSE req[p - 1].pc # "idle")

\* a handler that has started goes on when the event loop is its own or free
MayStep(p, label) == req[p].pc = label /\ (running = Nobody \/ running = p)

\* the event loop after handler p has reached label
Loop(p, label) == IF label = "done" \/ Suspends(label) THEN Nobody ELSE p

Completed(p, kind, status) == Append(log, [p |-> p, kind |-> kind, status |-> status])

\* the pipeline has not been called
NoOutcome == [raises |-> FALSE, error |-> None, text |-> <<>>]

\* answer_generator.py line 15: the generator before its model is loaded
NoGenerator == [pc |-> "new", pipeline |-> None, loads |-> <<>>,
                primary_ok |-> FALSE, fallback_ok |-> FALSE,
                op |-> None, query |-> <<>>, context |-> <<>>,
                outcome |-> NoOutcome, pipeline_calls |-> 0, prompt |-> <<>>,
                exc |-> None, value |-> <<>>]

\* no direct call of the service has been made
NoCall == [calls |-> 0, op |-> None, documents |-> <<>>, exc |-> None,
           results |-> <<>>, before |-> NoStore, corpus |-> <<>>]

Init ==
    /\ c_text = <<>> /\ c_size = 1 /\ c_overlap = 0 /\ c_iter = 0
    /\ c_st = [start |-> 0, chunks |-> <<>>, pc |-> "idle"]
    /\ c_spans = <<>>
    /\ svc = NoCall
    /\ ag = NoGenerator
    /\ provider \in {"openai", "local"}
    /\ vector_store = NoStore
    /\ uploaded_documents = <<>>
    /\ temp_files = {}
    /\ req = [p \in Procs |-> IdleReq]
    /\ running = Nobody
    /\ next_gen = 1
    /\ ok_uploads = 0
    /\ log = <<>>

\* ------------------------------------------------------- upload_document
\* an upload ends with an HTTP error; the finally clause removes its file
UploadFails(p, r, status, detail) ==
    /\ req' = [r EXCEPT ![p].pc = "done", ![p].parsed_content = <<>>,
                        ![p].response = [status |-> status, detail |-> detail]]
    /\ temp_files' = temp_files \ {p}
    /\ running' = Loop(p, "done")
    /\ log' = Completed(p, "upload", status)

\* lines 56-59, 121-122: file.read() or temp_file.write() raises inside the
\* with statement, before the try whose finally clause removes the file; the
\* file was created with delete=False and is left on disk
UploadFailsBeforeTry(p, r, status, detail) ==
    /\ req' = [r EXCEPT ![p].pc = "done", ![p].parsed_content = <<>>,
                        ![p].response = [status |-> status, detail |-> detail]]
    /\ temp_files' = temp_files
    /\ running' = Loop(p, "done")
    /\ log' = Completed(p, "upload", status)

\* lines 41-57: validation, creation of the temporary file, await file.read()
upload_validate(p) ==
    \E f \in Files :
        LET r == [req EXCEPT ![p].kind = "upload", ![p].file = f]
        IN  /\ MayStart(p)
            /\ IF File(f).filename = ""
               THEN UploadFails(p, r, 400, "No filename provided")
               ELSE IF File(f).ext \notin SupportedExtensions
               THEN UploadFails(p, r, 400, "Unsupported file type")
               ELSE /\ req' = [r EXCEPT ![p].pc = "u_await"]
                    /\ temp_files' = temp_files \cup {p}
                    /\ running' = Loop(p, "u_await")
                    /\ UNCHANGED log
            /\ UNCHANGED <<provider, vector_store, uploaded_documents,
                           next_gen, ok_uploads>>
            /\ UNCHANGED <<cvars, svc, ag>>

\* variant: the refusal of a blank text is caught with the other exceptions
\* and reported as a processing error
upload_parse_wraps(p) ==
    /\ MayStep(p, "u_await")
    /\ IF File(req[p].file).read = "fail"
       THEN UploadFailsBeforeTry(p, req, 500, "Error processing document")
       ELSE IF File(req[p].file).parse = "fail"
       THEN UploadFails(p, req, 500, "Error processing document")
       ELSE IF strip(File(req[p].file).content) = <<>>
       THEN UploadFails(p, req, 500, "Error processing document")
       ELSE /\ req' = [req EXCEPT ![p].pc = "u_check",
                                  ![p].parsed_content = File(req[p].file).content]
            /\ running' = Loop(p, "u_check")
            /\ UNCHANGED <<temp_files, log>>
    /\ UNCHANGED <<provider, vector_store, uploaded_documents, next_gen, ok_uploads>>
    /\ UNCHANGED <<cvars, svc, ag>>

\* lines 57-66: the bytes are written, the file is parsed, a blank text refused
upload_parse(p) ==
    /\ MayStep(p, "u_await")
    /\ IF File(req[p].file).read = "fail"
       THEN UploadFailsBeforeTry(p, req, 500, "Error processing document")
       ELSE IF File(req[p].file).parse = "fail"
       THEN UploadFails(p, req, 500, "Error processing document")
       ELSE IF strip(File(req[p].file).content) = <<>>
       THEN UploadFails(p, req, 400, "Document appears to be empty")
       ELSE /\ req' = [req EXCEPT ![p].pc = "u_check",
                                  ![p].parsed_content = File(req[p].file).content]
            /\ running' = Loop(p, "u_check")
            /\ UNCHANGED <<temp_files, log>>
    /\ UNCHANGED <<provider, vector_store, uploaded_documents, next_gen, ok_uploads>>
    /\ UNCHANGED <<cvars, svc, ag>>

\* line 82: is there a vector store already
upload_check(p) ==
    /\ MayStep(p, "u_check")
    /\ req' = [req EXCEPT ![p].pc = "u_build",
                          ![p].branch = IF vector_store = NoStore THEN "create"
                                        ELSE "recreate"]
    /\ running' = Loop(p, "u_build")
    /\ UNCHANGED <<provider, vector_store, uploaded_documents, temp_files,
                   next_gen, ok_uploads, log>>
    /\ UNCHANGED <<cvars, svc, ag>>

\* lines 68-79: the uploaded document as a DocumentChunk
DocumentChunkOf(p) ==
    [content |-> req[p].parsed_content,
     metadata |-> DocMetadata(File(req[p].file), p)]

\* lines 83-93: create_vector_store on either branch
upload_build(p) ==
    \E embed_ok \in EmbedOutcomes :
        LET documents == IF req[p].branch = "create" THEN <<DocumentChunkOf(p)>>
                         ELSE DocumentsToIndex(uploaded_documents, DocumentChunkOf(p))
            r == create_vector_store(vector_store, provider, documents,
                                     embed_ok, next_gen)
        IN  /\ MayStep(p, "u_build")
            /\ vector_store' = r.vector_store
            /\ IF r.exc # None
               THEN /\ UploadFails(p, [req EXCEPT ![p].writes =
                                         IF r.vector_store # vector_store
                                         THEN @ \cup {"vector_store"} ELSE @],
                                   500, "Error processing document")
                    /\ UNCHANGED next_gen
               ELSE /\ req' = [req EXCEPT ![p].pc = "u_record",
                                          ![p].writes = @ \cup {"vector_store"}]
                    /\ running' = Loop(p, "u_record")
                    /\ next_gen' = next_gen + 1
                    /\ UNCHANGED <<temp_files, log>>
            /\ UNCHANGED <<provider, uploaded_documents, ok_uploads>>
            /\ UNCHANGED <<cvars, svc, ag>>

\* lines 95-117: the record is appended, the response made, the file removed
upload_record(p) ==
    /\ MayStep(p, "u_record")
    /\ uploaded_documents' = AppendDocInfo(uploaded_documents, File(req[p].file),
                                 DocMetadata(File(req[p].file), p),
                                 req[p].parsed_content)
    /\ req' = [req EXCEPT
          ![p].pc = "done", ![p].parsed_content = <<>>,
          ![p].writes = @ \cup {"uploaded_documents"},
          ![p].response =
              [status |-> 200,
               detail |-> "Document uploaded and processed successfully",
               filename |-> File(req[p].file).filename,
               chunks_created |-> Len(chunk_text(req[p].parsed_content,
                                        DefaultChunkSize, DefaultOverlap))]]
    /\ temp_files' = temp_files \ {p}
    /\ running' = Loop(p, "done")
    /\ ok_uploads' = ok_uploads + 1
    /\ log' = Completed(p, "upload", 200)
    /\ UNCHANGED <<provider, vector_store, next_gen>>
    /\ UNCHANGED <<cvars, svc, ag>>

\* ------------------------------------------------------- query_documents
QueryFails(p, r, status, detail) ==
    /\ req' = [r EXCEPT ![p].pc = "done", ![p].context = <<>>,
                        ![p].response = [status |-> status, detail |-> detail]]
    /\ running' = Loop(p, "done")
    /\ log' = Completed(p, "query", status)

\* lines 129-135: a query without a vector store is refused
query_check(p) ==
    \E q \in Queries, k \in Ks :
        LET r == [req EXCEPT ![p].kind = "query", ![p].query = q, ![p].k = k,
                             ![p].had_ingest = ok_uploads > 0]
        IN  /\ MayStart(p)
            /\ IF NoVectorStore(vector_store)
               THEN QueryFails(p, r, 400, "No documents uploaded yet")
               ELSE /\ req' = [r EXCEPT ![p].pc = "q_context"]
                    /\ running' = Loop(p, "q_context")
                    /\ UNCHANGED log
            /\ UNCHANGED <<provider, vector_store, uploaded_documents, temp_files,
                           next_gen, ok_uploads>>
            /\ UNCHANGED <<cvars, svc, ag>>

\* line 138: the context
query_context(p) ==
    \E embed_ok \in EmbedOutcomes :
        LET r == get_relevant_context(vector_store, provider, req[p].query,
                                      req[p].k, embed_ok)
        IN  /\ MayStep(p, "q_context")
            /\ IF r.exc # None
               THEN QueryFails(p, req, 500, r.exc)
               ELSE /\ req' = [req EXCEPT ![p].pc = "q_sources",
                                          ![p].context = r.context,
                                          ![p].ctx_gen = vector_store.gen,
                                          ![p].qv_dims =
                                              {QueryVector(provider, req[p].query).dim}]
                    /\ running' = Loop(p, "q_sources")
                    /\ UNCHANGED log
            /\ UNCHANGED <<provider, vector_store, uploaded_documents, temp_files,
                           next_gen, ok_uploads>>
            /\ UNCHANGED <<cvars, svc, ag>>

\* lines 140-162: the sources and the response
query_sources(p) ==
    \E embed_ok \in EmbedOutcomes :
        LET r == query_vector_store(vector_store, provider, req[p].query,
                                    req[p].k, embed_ok)
        IN  /\ MayStep(p, "q_sources")
            /\ IF r.exc # None
               THEN QueryFails(p, req, 500, r.exc)
               ELSE /\ req' = [req EXCEPT
                         ![p].pc = "done",
                         ![p].src_gen = vector_store.gen,
                         ![p].qv_dims =
                             @ \cup {QueryVector(provider, req[p].query).dim},
                         ![p].response =
                             [status |-> 200, detail |-> "ok",
                              query |-> req[p].query,
                              context |-> req[p].context,
                              sources |-> Sources(r.results),
                              n_sources |-> Len(r.results)]]
                    /\ running' = Loop(p, "done")
                    /\ log' = Completed(p, "query", 200)
            /\ UNCHANGED <<provider, vector_store, uploaded_documents, temp_files,
                           next_gen, ok_uploads>>
            /\ UNCHANGED <<cvars, svc, ag>>

\* -------------------------------------------------------- list_documents
\* lines 169-177
list_documents(p) ==
    /\ MayStart(p)
    /\ req' = [req EXCEPT ![p].kind = "list", ![p].pc = "done",
                          ![p].response =
                              [status |-> 200, detail |-> "ok",
                               total_documents |-> Len(uploaded_documents),
                               documents |-> uploaded_documents]]
    /\ running' = Loop(p, "done")
    /\ log' = Completed(p, "list", 200)
    /\ UNCHANGED <<provider, vector_store, uploaded_documents, temp_files,
                   next_gen, ok_uploads>>
    /\ UNCHANGED <<cvars, svc, ag>>

\* ------------------------------------------------------- clear_documents
\* line 185: uploaded_documents.clear()
clear_docs(p) ==
    /\ MayStart(p)
    /\ uploaded_documents' = <<>>
    /\ ok_uploads' = 0
    /\ req' = [req EXCEPT ![p].kind = "clear", ![p].pc = "c_store",
                          ![p].writes = {"uploaded_documents"}]
    /\ running' = Loop(p, "c_store")
    /\ UNCHANGED <<provider, vector_store, temp_files, next_gen, log>>
    /\ UNCHANGED <<cvars, svc, ag>>

\* variant: the clear empties the list and leaves the vector store in place
clear_store_kept(p) ==
    /\ MayStep(p, "c_store")
    /\ vector_store' = vector_store
    /\ req' = [req EXCEPT ![p].pc = "done",
                          ![p].response =
                              [status |-> 200,
                               detail |-> "All documents cleared successfully"]]
    /\ running' = Loop(p, "done")
    /\ log' = Completed(p, "clear", 200)
    /\ UNCHANGED <<provider, uploaded_documents, temp_files, next_gen, ok_uploads>>
    /\ UNCHANGED <<cvars, svc, ag>>

\* lines 186-188: embedding_service.vector_store = None, and the response
clear_store(p) ==
    /\ MayStep(p, "c_store")
    /\ vector_store' = NoStore
    /\ req' = [req EXCEPT ![p].pc = "done",
                          ![p].writes = @ \cup {"vector_store"},
                          ![p].response =
                              [status |-> 200,
                               detail |-> "All documents cleared successfully"]]
    /\ running' = Loop(p, "done")
    /\ log' = Completed(p, "clear", 200)
    /\ UNCHANGED <<provider, uploaded_documents, temp_files, next_gen, ok_uploads>>
    /\ UNCHANGED <<cvars, svc, ag>>

Next ==
    \E p \in Procs :
        \/ upload_validate(p)
        \/ upload_parse(p)
        \/ upload_check(p)
        \/ upload_build(p)
        \/ upload_record(p)
        \/ query_check(p)
        \/ query_context(p)
        \/ query_sources(p)
        \/ list_documents(p)
        \/ clear_docs(p)
        \/ clear_store(p)

Spec == Init /\ [][Next]_vars

\* ---------------------------------------------------- a run of chunk_text
RECURSIVE TextsOfLen(_)
TextsOfLen(n) == IF n = 0 THEN {<<>>}
                 ELSE {Append(t, c) : t \in TextsOfLen(n - 1), c \in Alphabet}

Texts == UNION {TextsOfLen(n) : n \in 0..MaxLen}

ChunkInit ==
    /\ c_text \in Texts
    /\ c_size \in 1..MaxChunkSize
    /\ c_overlap \in 0..(MaxChunkSize + 2)
    /\ c_st = [start |-> 0, chunks |-> <<>>, pc |-> "call"]
    /\ c_iter = 0
    /\ c_spans = <<>>
    /\ svc = NoCall
    /\ ag = NoGenerator
    /\ provider = "local"
    /\ vector_store = NoStore
    /\ uploaded_documents = <<>>
    /\ temp_files = {}
    /\ req = [p \in Procs |-> IdleReq]
    /\ running = Nobody
    /\ next_gen = 1
    /\ ok_uploads = 0
    /\ log = <<>>

\* lines 49-54: the short-text return, or entry into the loop
ChunkCall ==
    /\ c_st.pc = "call"
    /\ c_st' = ChunkEnter(c_text, c_size)
    /\ UNCHANGED <<c_text, c_size, c_overlap, c_iter, c_spans>>
    /\ UNCHANGED <<svars, svc, ag>>

\* lines 55-72: one iteration of the while loop
ChunkWhile ==
    /\ c_st.pc = "while"
    /\ c_iter < MaxIter
    /\ c_st' = ChunkIteration(c_text, c_size, c_overlap, c_st)
    /\ c_iter' = c_iter + 1
    /\ c_spans' = LET w == WindowEnd(c_text, c_size, c_st.start)
                  IN  IF c_st.start < Len(c_text) /\ w.ok
                      THEN Append(c_spans,
                               [start |-> c_st.start, end |-> w.end,
                                n |-> IF Len(c_st'.chunks) > Len(c_st.chunks)
                                      THEN Len(c_st'.chunks) ELSE 0])
                      ELSE c_spans
    /\ UNCHANGED <<c_text, c_size, c_overlap>>
    /\ UNCHANGED <<svars, svc, ag>>

ChunkNext == ChunkCall \/ ChunkWhile

ChunkSpec == ChunkInit /\ [][ChunkNext]_vars

\* ---------------------------------------------- direct calls of the service
\* number of calls made to the service
MaxCalls == 3

\* the documents (DocumentChunk: content, metadata) given to create_vector_store
Doc(d) ==
    CASE d = "short" -> [content |-> <<"a", "a", ".">>,
                         metadata |-> [source |-> "doc1.txt", type |-> "text"]]
      [] d = "long" -> [content |-> LongText,
                        metadata |-> [source |-> "doc2.txt", type |-> "text"]]
      [] d = "tagged" -> [content |-> <<"a">>,
                          metadata |-> [source |-> "doc3.txt", chunk_id |-> 7]]

Docs == {"short", "long", "tagged"}

\* the lists of documents of a call: none, one or two documents
DocLists == {<<>>} \cup {<<Doc(a)>> : a \in Docs}
                  \cup {<<Doc(a), Doc(b)>> : a, b \in Docs}

\* embedding_service.create_vector_store(documents)
svc_create_vector_store ==
    \E documents \in DocLists, embed_ok \in EmbedOutcomes :
        LET r == create_vector_store(vector_store, provider, documents,
                                     embed_ok, next_gen)
        IN  /\ svc.calls < MaxCalls
            /\ vector_store' = r.vector_store
            /\ next_gen' = IF r.exc = None THEN next_gen + 1 ELSE next_gen
            /\ svc' = [calls |-> svc.calls + 1, op |-> "create_vector_store",
                       documents |-> documents, exc |-> r.exc, results |-> <<>>,
                       before |-> vector_store,
                       corpus |-> IF r.exc = None THEN documents ELSE svc.corpus]
            /\ UNCHANGED <<provider, uploaded_documents, temp_files, req,
                           running, ok_uploads, log>>
            /\ UNCHANGED <<cvars, ag>>

\* embedding_service.query_vector_store(query, k)
svc_query_vector_store ==
    \E q \in Queries, k \in Ks, embed_ok \in EmbedOutcomes :
        LET r == query_vector_store(vector_store, provider, q, k, embed_ok)
        IN  /\ svc.calls < MaxCalls
            /\ svc' = [calls |-> svc.calls + 1, op |-> "query_vector_store",
                       documents |-> <<>>, exc |-> r.exc, results |-> r.results,
                       before |-> vector_store, corpus |-> svc.corpus]
            /\ UNCHANGED <<provider, vector_store, uploaded_documents, temp_files,
                           req, running, next_gen, ok_uploads, log>>
            /\ UNCHANGED <<cvars, ag>>

ServiceNext == svc_create_vector_store \/ svc_query_vector_store

ServiceSpec == Init /\ [][ServiceNext]_vars

\* ------------------------------------------------------ the answer generator
\* length of the texts the pipeline generates
MaxAnswerLen == 2

PrimaryModel == "google/flan-t5-base"
FallbackModel == "google/flan-t5-small"

\* lines 18-44: _initialize_model. primary_ok, fallback_ok: whether pipeline()
\* succeeds for the model; loads: the models pipeline() was called with
initialize_model(model_name, primary_ok, fallback_ok) ==
    IF primary_ok
    THEN [pipeline |-> model_name, loads |-> <<model_name>>]
    ELSE IF fallback_ok
    THEN [pipeline |-> FallbackModel, loads |-> <<model_name, FallbackModel>>]
    ELSE [pipeline |-> None, loads |-> <<model_name, FallbackModel>>]

\* lines 79-94: _create_prompt; the fixed parts of the template are one
\* element each
create_prompt(query, context) ==
    LET max_context_length == 1000
        ctx == IF Len(context) > max_context_length
               THEN PySlice(context, 0, max_context_length) \o <<"...">>
               ELSE context
    IN  <<"Answer the question based on the provided context. Be concise and accurate.\n\nContext: ">>
        \o ctx \o <<"\n\nQuestion: ">> \o query \o <<"\n\nAnswer:">>

\* answer.split("Answer:")[-1]: what follows the last "Answer:"
RECURSIVE AfterLast(_, _)
AfterLast(s, tok) ==
    IF \A i \in 1..Len(s) : s[i] # tok THEN s
    ELSE AfterLast(Tail(s), tok)

IsTerminal(c) == c \in {".", "!", "?"}

\* lines 96-109: _post_process_answer; "Answer:" and "</s>" are one element
\* of the text each
post_process_answer(answer) ==
    LET a1 == IF \E i \in 1..Len(answer) : answer[i] = "Answer:"
              THEN strip(AfterLast(answer, "Answer:")) ELSE answer
        a2 == strip(SelectSeq(a1, LAMBDA c : c # "</s>"))
    IN  IF a2 # <<>> /\ ~IsTerminal(a2[Len(a2)]) THEN Append(a2, ".") ELSE a2

NotAvailable ==
    <<"Sorry, the answer generation service is not available at the moment.">>
NotEnoughContext ==
    <<"I don't have enough context to answer this question. Please try uploading relevant documents first.">>
Apology(e) ==
    <<"I apologize, but I encountered an error while generating an answer: ", e>>

\* variant: the context is tested before the pipeline
generate_answer_context_first(pipeline, query, context, outcome) ==
    IF strip(context) = <<>>
    THEN [exc |-> None, value |-> NotEnoughContext, pipeline_calls |-> 0,
          prompt |-> <<>>]
    ELSE IF pipeline = None
    THEN [exc |-> None, value |-> NotAvailable, pipeline_calls |-> 0,
          prompt |-> <<>>]
    ELSE IF outcome.raises
    THEN [exc |-> None, value |-> Apology(outcome.error), pipeline_calls |-> 1,
          prompt |-> create_prompt(query, context)]
    ELSE [exc |-> None, value |-> post_process_answer(strip(outcome.text)),
          pipeline_calls |-> 1, prompt |-> create_prompt(query, context)]

\* lines 46-77: generate_answer(query, context) on a generator whose pipeline
\* is pipeline. outcome: what the pipeline does if it is called, raise an
\* error or return [{'generated_text': text}]. Result: the exception that
\* leaves the call (None: it returns), the value returned, the number of
\* calls of the pipeline and the prompt it was called with.
generate_answer(pipeline, query, context, outcome) ==
    IF pipeline = None
    THEN [exc |-> None, value |-> NotAvailable, pipeline_calls |-> 0,
          prompt |-> <<>>]
    ELSE IF strip(context) = <<>>
    THEN [exc |-> None, value |-> NotEnoughContext, pipeline_calls |-> 0,
          prompt |-> <<>>]
    ELSE IF outcome.raises
    THEN [exc |-> None, value |-> Apology(outcome.error), pipeline_calls |-> 1,
          prompt |-> create_prompt(query, context)]
    ELSE [exc |-> None, value |-> post_process_answer(strip(outcome.text)),
          pipeline_calls |-> 1, prompt |-> create_prompt(query, context)]

\* the texts a pipeline generates
AnswerAlphabet == {"a", ".", " ", "Answer:", "</s>"}

RECURSIVE AnswersOfLen(_)
AnswersOfLen(n) == IF n = 0 THEN {<<>>}
                   ELSE {Append(t, c) : t \in AnswersOfLen(n - 1), c \in AnswerAlphabet}

\* what a call of the pipeline does
PipelineOutcomes ==
    {[raises |-> TRUE, error |-> "Model error", text |-> <<>>]}
    \cup {[raises |-> FALSE, error |-> None, text |-> t] :
              t \in UNION {AnswersOfLen(n) : n \in 0..MaxAnswerLen}}

\* the contexts of the calls: empty, blank, short, longer than the prompt takes
AnswerContexts == {<<>>, <<" ", "\n">>, <<"a", ".">>, LongText}

AnswerQueries == {<<"a", "?">>}

\* line 116: answer_generator = AnswerGenerator()
AnswerGenerator_init ==
    \E primary_ok, fallback_ok \in BOOLEAN :
        LET m == initialize_model(PrimaryModel, primary_ok, fallback_ok)
        IN  /\ ag.pc = "new"
            /\ ag' = [ag EXCEPT !.pc = "ready", !.pipeline = m.pipeline,
                                !.loads = m.loads, !.primary_ok = primary_ok,
                                !.fallback_ok = fallback_ok]
            /\ UNCHANGED <<cvars, svars, svc>>

\* answer_generator.generate_answer(query, context)
AnswerGenerator_generate_answer ==
    \E query \in AnswerQueries, context \in AnswerContexts,
       outcome \in PipelineOutcomes :
        LET r == generate_answer(ag.pipeline, query, context, outcome)
        IN  /\ ag.pc = "ready"
            /\ ag' = [ag EXCEPT !.op = "generate_answer", !.query = query,
                                !.context = context,
                                !.outcome = IF r.pipeline_calls = 0 THEN NoOutcome
                                            ELSE outcome,
                                !.pipeline_calls = r.pipeline_calls,
                                !.prompt = r.prompt,
                                !.exc = r.exc, !.value = r.value]
            /\ UNCHANGED <<cvars, svars, svc>>

AnswerNext == AnswerGenerator_init \/ AnswerGenerator_generate_answer

AnswerSpec == Init /\ [][AnswerNext]_vars

\* ================================================================ properties
\* no handler is between two of its steps
Quiescent == \A p \in Procs : req[p].pc \in {"idle", "done", "u_await"}

IsDone(p, kind) == req[p].kind = kind /\ req[p].pc = "done"

\* position of request p in the log of completed calls, 0 if it is not there
LogPos(p) == IF \E i \in 1..Len(log) : log[i].p = p
             THEN CHOOSE i \in 1..Len(log) : log[i].p = p
             ELSE 0

\* ----------------------------------------------------------------------- C1
\* C1: whenever an index exists, it holds passages of every document of the
\* document list, that is of every document ingested since the last clear,
\* so that each of them can be retrieved by a query.
C1_IndexHoldsEveryDocument ==
    (running = Nobody /\ vector_store # NoStore) =>
        \A i \in 1..Len(uploaded_documents) :
            \E j \in 1..Len(vector_store.docstore) :
                /\ vector_store.docstore[j].metadata.source
                       = uploaded_documents[i].filename
                /\ vector_store.docstore[j].metadata.upload_timestamp
                       = uploaded_documents[i].metadata.upload_timestamp

\* ----------------------------------------------------------------------- C2
BothWrites == {"vector_store", "uploaded_documents"}

\* C2: an upload that ended in an error has written neither the document list
\* nor the index, an upload that reported success has written both, and
\* between handlers the index exists exactly when the list has a record, the
\* last record being that of the document the index was built from.
C2_AllOrNothing ==
    /\ \A p \in Procs :
          req[p].kind = "upload" =>
             /\ (req[p].pc = "done" /\ req[p].response.status # 200)
                    => req[p].writes = {}
             /\ (req[p].pc = "done" /\ req[p].response.status = 200)
                    => req[p].writes = BothWrites
             /\ running = Nobody => req[p].writes \in {{}, BothWrites}
    /\ running = Nobody =>
          /\ (vector_store = NoStore) <=> (uploaded_documents = <<>>)
          /\ vector_store # NoStore =>
                /\ vector_store.docstore # <<>>
                /\ vector_store.docstore[1].metadata
                     = [chunk_id |-> 0,
                        total_chunks |-> uploaded_documents[Len(uploaded_documents)].chunks]
                       @@ uploaded_documents[Len(uploaded_documents)].metadata

\* an upload failed in the build (the provider did not answer) after another
\* upload had succeeded, and the list and the index of that one are in place
C2_Witness ==
    \E i, j \in 1..Len(log) :
        /\ i < j
        /\ log[i].kind = "upload" /\ log[i].status = 200
        /\ log[j].kind = "upload" /\ log[j].status = 500
        /\ req[log[j].p].file \in {"A", "B"}
        /\ Len(uploaded_documents) = 1
        /\ vector_store # NoStore

\* ----------------------------------------------------------------------- C3
\* C3: with chunk_size >= 1 and 0 <= overlap < chunk_size, every iteration of
\* the loop of chunk_text moves the start of the next window strictly forward
\* (and so the loop ends and the result is finite).
C3_StartAdvances ==
    [][(c_st.pc = "while" /\ 1 <= c_size /\ 0 <= c_overlap /\ c_overlap < c_size)
          => c_st'.start > c_st.start]_vars

\* ----------------------------------------------------------------------- C4
\* the calls that change the list or the index, as completed
Mutating == {i \in 1..Len(log) :
                \/ log[i].kind = "clear"
                \/ log[i].kind = "upload" /\ log[i].status = 200}

Orders(S) == {o \in [1..Cardinality(S) -> S] :
                 \A a, b \in 1..Cardinality(S) : a # b => o[a] # o[b]}

\* the list and the passages of the index after the calls order[n..] are run
\* one after the other from the state s
RECURSIVE SerialRun(_, _, _)
SerialRun(order, n, s) ==
    IF n > Len(order) THEN s
    ELSE LET e == log[order[n]]
             file == File(req[e.p].file)
             chunk == [content |-> file.content, metadata |-> DocMetadata(file, e.p)]
         IN  IF e.kind = "clear"
             THEN SerialRun(order, n + 1, [docs |-> <<>>, passages |-> <<>>])
             ELSE SerialRun(order, n + 1,
                     [docs |-> AppendDocInfo(s.docs, file, chunk.metadata, file.content),
                      passages |-> LangchainDocs(DocumentsToIndex(s.docs, chunk))])

Passages(vs) == IF vs = NoStore THEN <<>> ELSE vs.docstore

\* a handler is on the build/replace path: an upload from its test of the
\* index to its append, a clear between its two assignments
OnBuildPath(p) == req[p].pc \in {"u_build", "u_record", "c_store"}

\* C4: at most one upload or clear is on the build/replace path at a time, and
\* whenever no handler is between two steps the document list and the index
\* are those of the completed uploads and clears run in some serial order.
C4_Serialized ==
    /\ Cardinality({p \in Procs : OnBuildPath(p)}) <= 1
    /\ Quiescent =>
          \E order \in Orders(Mutating) :
              SerialRun(order, 1, [docs |-> <<>>, passages |-> <<>>])
                 = [docs |-> uploaded_documents, passages |-> Passages(vector_store)]

\* two uploads were in progress at the same time (the one that started first
\* completed last) and both succeeded
C4_Witness ==
    /\ Quiescent
    /\ \E i, j \in 1..Len(log) :
          /\ i < j /\ log[i].p > log[j].p
          /\ log[i].kind = "upload" /\ log[i].status = 200
          /\ log[j].kind = "upload" /\ log[j].status = 200
    /\ Len(uploaded_documents) = 2

\* ----------------------------------------------------------------------- C5
\* a completely built generation: one vector of the provider for every passage
Complete(vs) ==
    /\ vs.gen > 0
    /\ vs.docstore # <<>>
    /\ Len(vs.vectors) = Len(vs.docstore)
    /\ \A i \in 1..Len(vs.docstore) :
          vs.vectors[i] = Embed(provider, vs.docstore[i].page_content)

\* C5: the index visible to the handlers is absent or a completely built
\* generation, and every query that completed took its context and its
\* sources from one and the same generation, or failed with an error.
C5_QueriesSeeOneGeneration ==
    /\ vector_store # NoStore => Complete(vector_store)
    /\ \A p \in Procs :
          IsDone(p, "query") =>
             \/ /\ req[p].response.status = 200
                /\ req[p].ctx_gen > 0
                /\ req[p].ctx_gen = req[p].src_gen
             \/ req[p].response.status \in {400, 500}

\* a query completed while an upload that had started before it was suspended
\* at its await
C5_Witness ==
    \E u, q \in Procs :
        /\ u < q
        /\ req[u].kind = "upload" /\ req[u].pc = "u_await"
        /\ IsDone(q, "query") /\ req[q].response.status = 200

\* ----------------------------------------------------------------------- C6
\* C6 as stated: a query fails with "No documents uploaded" exactly when no
\* upload has succeeded since start-up or the last clear, and succeeds
\* otherwise.
C6_FailsIffNoIngestElseSucceeds ==
    \A p \in Procs :
        IsDone(p, "query") =>
           IF req[p].had_ingest
           THEN req[p].response.status = 200
           ELSE req[p].response.status = 400

\* C6 amended: a query fails with "No documents uploaded" exactly when no
\* upload has succeeded since start-up or the last clear; otherwise it succeeds
\* unless the remote provider fails to embed the query, which is an HTTP 500;
\* the service's "Vector store not initialized" is raised exactly in the states
\* without a successful upload and never reaches a client of the router.
C6_NoIndexIffNoIngest ==
    /\ \A p \in Procs :
          IsDone(p, "query") =>
             /\ req[p].response.status = 400 <=> ~req[p].had_ingest
             /\ req[p].response.status = 400
                   => req[p].response.detail = "No documents uploaded yet"
             /\ req[p].had_ingest =>
                   \/ req[p].response.status = 200
                   \/ /\ req[p].response.status = 500
                      /\ req[p].response.detail = "embedding failed"
                      /\ provider = "openai"
    /\ running = Nobody =>
          \A q \in Queries, k \in Ks :
              (query_vector_store(vector_store, provider, q, k, TRUE).exc
                  = "ValueError: Vector store not initialized")
              <=> ok_uploads = 0

\* a query was refused before any upload, and a later query, made after an
\* upload had succeeded, was answered
C6_Witness ==
    \E p, q \in Procs :
        /\ IsDone(p, "query") /\ ~req[p].had_ingest /\ req[p].response.status = 400
        /\ IsDone(q, "query") /\ req[q].had_ingest /\ req[q].response.status = 200

\* ----------------------------------------------------------------------- C7
\* a clear completed before request p did
AfterClear(p) == \E i \in 1..Len(log) : log[i].kind = "clear" /\ i < LogPos(p)

\* the clear is the last call that completed, and no handler is at work
JustCleared == /\ log # <<>> /\ log[Len(log)].kind = "clear"
               /\ \A p \in Procs : req[p].pc \in {"idle", "done"}

ClearEmpties ==
    /\ JustCleared => uploaded_documents = <<>> /\ vector_store = NoStore
    /\ \A i \in 1..Len(log) :
          (i > 1 /\ log[i].kind = "list" /\ log[i - 1].kind = "clear")
             => req[log[i].p].response.total_documents = 0

\* C7 as stated: a clear leaves the list empty and the index absent; a query
\* after a clear fails with "No documents uploaded" until an upload succeeds,
\* and succeeds after that.
C7_ClearThenNoIndexThenSuccess ==
    /\ ClearEmpties
    /\ \A p \in Procs :
          (IsDone(p, "query") /\ AfterClear(p)) =>
             /\ ~req[p].had_ingest => req[p].response.status = 400
             /\ req[p].had_ingest => req[p].response.status = 200

\* C7 amended: a clear leaves the list empty and the index absent; a query
\* after a clear fails with "No documents uploaded" until an upload succeeds;
\* after that a query is no longer refused for a missing index: it succeeds,
\* or fails with HTTP 500 when the remote provider cannot embed the query.
C7_ClearThenNoIndexUntilIngest ==
    /\ ClearEmpties
    /\ \A p \in Procs :
          (IsDone(p, "query") /\ AfterClear(p)) =>
             /\ ~req[p].had_ingest =>
                   /\ req[p].response.status = 400
                   /\ req[p].response.detail = "No documents uploaded yet"
             /\ req[p].had_ingest =>
                   \/ req[p].response.status = 200
                   \/ req[p].response.status = 500 /\ provider = "openai"

\* an upload succeeded, a clear followed, and the query after it was refused
C7_Witness ==
    \E i, j, k \in 1..Len(log) :
        /\ i < j /\ j < k
        /\ log[i].kind = "upload" /\ log[i].status = 200
        /\ log[j].kind = "clear"
        /\ log[k].kind = "query" /\ log[k].status = 400

\* ----------------------------------------------------------------------- C8
\* texts used to probe the index
Probes == Queries \cup {<<>>, <<"a">>, <<"a", ".">>}

NearestFirst(vs, qv, results) ==
    /\ \A i \in 1..Len(results) :
          /\ results[i].id \in EntryIds(vs)
          /\ results[i].doc = vs.docstore[results[i].id + 1]
          /\ results[i].score = L2(qv, vs.vectors[results[i].id + 1])
    /\ \A i, j \in 1..Len(results) :
          i < j => Closer(vs, qv, results[i].id, results[j].id)
    /\ \A i \in 1..Len(results) :
          \A e \in EntryIds(vs) \ {results[n].id : n \in 1..Len(results)} :
              Closer(vs, qv, results[i].id, e)

\* C8: on an index of N passages a search with k >= 1 returns min(k, N)
\* (passage, distance) pairs, the nearest ones, by non-decreasing distance and
\* among equal distances by ascending entry id; k > N is not an error.
C8_SearchReturnsMinKN ==
    /\ vector_store # NoStore =>
          \A q \in Probes, k \in 1..(Len(vector_store.vectors) + 2) :
              LET r == query_vector_store(vector_store, provider, q, k, TRUE)
              IN  /\ r.exc = None
                  /\ Len(r.results) = Min(k, Len(vector_store.vectors))
                  /\ NearestFirst(vector_store, Embed(provider, q), r.results)
    /\ \A p \in Procs :
          (IsDone(p, "query") /\ req[p].response.status = 200) =>
             /\ req[p].response.n_sources >= 1
             /\ req[p].response.n_sources <= req[p].k
             /\ \A i \in 1..(req[p].response.n_sources - 1) :
                   req[p].response.sources[i].similarity_score
                      <= req[p].response.sources[i + 1].similarity_score

\* a query with k = 3 on an index of two passages got both, at equal distance,
\* in the order of their ids
C8_Witness ==
    \E p \in Procs :
        /\ IsDone(p, "query") /\ req[p].response.status = 200
        /\ req[p].k = 3
        /\ req[p].response.n_sources = 2
        /\ req[p].response.sources[1].similarity_score
              = req[p].response.sources[2].similarity_score
        /\ req[p].response.sources[1].chunk_id = 0
        /\ req[p].response.sources[2].chunk_id = 1

\* ----------------------------------------------------------------------- C9
\* C9: the document list is as long as the number of uploads that succeeded
\* since start-up or the last clear, whatever the number of their passages.
C9_OneRecordPerUpload == Len(uploaded_documents) = ok_uploads

\* two uploads succeeded, one of a document of two passages, and one failed
C9_Witness ==
    /\ Len(uploaded_documents) = 2
    /\ \E i \in 1..2 : uploaded_documents[i].chunks = 2
    /\ \E j \in 1..Len(log) : log[j].kind = "upload" /\ log[j].status # 200

\* ---------------------------------------------------------------------- C10
\* C10: for a text no longer than chunk_size, and any overlap, chunk_text
\* returns the one-element sequence of the text itself, untrimmed.
C10_ShortTextUnchanged ==
    (c_st.pc \notin {"idle", "call"} /\ Len(c_text) <= c_size) =>
        /\ c_st.pc = "return"
        /\ c_st.chunks = <<c_text>>

\* a text with white space at both ends, no longer than chunk_size, was
\* returned as it is, with an overlap of at least chunk_size
C10_Witness ==
    /\ c_st.pc = "return"
    /\ Len(c_text) >= 3 /\ Len(c_text) <= c_size
    /\ IsSpace(c_text[1]) /\ IsSpace(c_text[Len(c_text)])
    /\ c_overlap >= c_size
    /\ c_st.chunks = <<c_text>>

\* ---------------------------------------------------------------------- C11
\* character position p of the text (0-based) is in the passage cut from
\* window w: the window was kept and the passage has that character at the
\* place the trimming of the slice leaves it
InPassage(w, p) ==
    LET a == SliceBound(c_text, w.start)
        b == SliceBound(c_text, w.end)
        slice == PySlice(c_text, w.start, w.end)
        lead == Len(slice) - Len(lstrip(slice))
    IN  /\ w.n > 0 /\ w.n <= Len(c_st.chunks)
        /\ a <= p /\ p < b
        /\ p - a - lead + 1 \in 1..Len(c_st.chunks[w.n])
        /\ c_st.chunks[w.n][p - a - lead + 1] = c_text[p + 1]

\* C11: when chunk_text returns for a text longer than chunk_size and
\* 0 <= overlap < chunk_size, every character of the text that is not white
\* space is in a returned passage, the windows start at 0, follow each other
\* by increasing start without a gap, and the passages are in window order.
C11_NoContentLost ==
    (c_st.pc = "return" /\ Len(c_text) > c_size
         /\ 0 <= c_overlap /\ c_overlap < c_size) =>
        /\ \A p \in 0..(Len(c_text) - 1) :
              ~IsSpace(c_text[p + 1]) =>
                  \E i \in 1..Len(c_spans) : InPassage(c_spans[i], p)
        /\ c_spans # <<>> /\ c_spans[1].start = 0
        /\ c_spans[Len(c_spans)].end >= Len(c_text)
        /\ \A i \in 1..(Len(c_spans) - 1) :
              /\ c_spans[i].start < c_spans[i + 1].start
              /\ c_spans[i + 1].start <= c_spans[i].end
        /\ \A i, j \in 1..Len(c_spans) :
              (i < j /\ c_spans[i].n > 0 /\ c_spans[j].n > 0)
                  => c_spans[i].n < c_spans[j].n

\* a text with white space was cut into two passages or more that overlap,
\* one of them shortened to a sentence end
C11_Witness ==
    /\ c_st.pc = "return" /\ Len(c_text) > c_size
    /\ 1 <= c_overlap /\ c_overlap < c_size
    /\ Len(c_st.chunks) >= 2
    /\ \E p \in 1..Len(c_text) : IsSpace(c_text[p])
    /\ \E i \in 1..Len(c_spans) :
          /\ c_spans[i].end < c_spans[i].start + c_size
          /\ c_spans[i].end < Len(c_text)

\* ---------------------------------------------------------------------- C12
\* C12: every passage chunk_text has produced, at its return and at every
\* point of its loop, with any overlap, is at most chunk_size characters long.
C12_PassageAtMostChunkSize ==
    \A i \in 1..Len(c_st.chunks) : Len(c_st.chunks[i]) <= c_size

\* chunk_text returned a passage shortened to a sentence end and, after it, a
\* passage of exactly chunk_size characters
C12_Witness ==
    /\ c_st.pc = "return" /\ Len(c_text) > c_size
    /\ \E i, j \in 1..Len(c_st.chunks) :
          /\ i < j
          /\ Len(c_st.chunks[i]) < c_size
          /\ Len(c_st.chunks[j]) = c_size
    /\ \E i \in 1..Len(c_spans) :
          /\ c_spans[i].end < c_spans[i].start + c_size
          /\ c_spans[i].end < Len(c_text)

\* ---------------------------------------------------------------------- C13
\* the keys create_vector_store assigns itself
AssignedKeys == {"chunk_id", "total_chunks"}

\* passage is a chunk of document d and carries the tags of that chunk and the
\* metadata of d, the keys in except left aside
BuiltFrom(passage, d, except) ==
    LET chunks == chunk_text(d.content, DefaultChunkSize, DefaultOverlap)
    IN  \E c \in 1..Len(chunks) :
            /\ passage.page_content = chunks[c]
            /\ DOMAIN passage.metadata = DOMAIN d.metadata \cup AssignedKeys
            /\ \A key \in DOMAIN d.metadata \ except :
                  passage.metadata[key] = d.metadata[key]
            /\ \/ "chunk_id" \in DOMAIN d.metadata \ except
               \/ passage.metadata.chunk_id = c - 1
            /\ \/ "total_chunks" \in DOMAIN d.metadata \ except
               \/ passage.metadata.total_chunks = Len(chunks)

\* C13 as stated: every passage a search returns has every key of its
\* document's metadata with the document's value, and the chunk index and
\* chunk count of its own chunk.
C13_MetadataRoundTrip ==
    svc.op = "query_vector_store" =>
        \A i \in 1..Len(svc.results) :
            /\ \E j \in 1..Len(svc.corpus) :
                  BuiltFrom(svc.results[i].doc, svc.corpus[j], {})
            /\ svc.results[i].doc.metadata.chunk_id
                  \in 0..(svc.results[i].doc.metadata.total_chunks - 1)

\* C13 amended: every passage a search returns has the chunk index and chunk
\* count of its own chunk under chunk_id and total_chunks, and every other key
\* of its document's metadata with the document's value; a chunk_id or
\* total_chunks key of the document's own metadata is overwritten.
C13_MetadataRoundTripButAssignedKeys ==
    svc.op = "query_vector_store" =>
        \A i \in 1..Len(svc.results) :
            /\ \E j \in 1..Len(svc.corpus) :
                  BuiltFrom(svc.results[i].doc, svc.corpus[j], AssignedKeys)
            /\ svc.results[i].doc.metadata.chunk_id
                  \in 0..(svc.results[i].doc.metadata.total_chunks - 1)

\* a search on an index built from two documents returned the second passage
\* of the long one and the passage of the one whose metadata has a chunk_id
C13_Witness ==
    /\ svc.op = "query_vector_store" /\ svc.exc = None
    /\ Len(svc.corpus) = 2
    /\ \E i, j \in 1..Len(svc.results) :
          /\ svc.results[i].doc.metadata.source = "doc2.txt"
          /\ svc.results[i].doc.metadata.chunk_id = 1
          /\ svc.results[j].doc.metadata.source = "doc3.txt"
          /\ svc.results[j].doc.metadata.chunk_id = 0

\* ---------------------------------------------------------------------- C14
\* C14: create_vector_store([]) raises ValueError "No documents provided" and
\* leaves the vector store as it was: a store built before is still the
\* complete generation it was and answers a search, an absent one is absent.
C14_EmptyBuildFails ==
    (svc.op = "create_vector_store" /\ svc.documents = <<>>) =>
        /\ svc.exc = "ValueError: No documents provided"
        /\ vector_store = svc.before
        /\ vector_store # NoStore =>
              /\ Complete(vector_store)
              /\ \A q \in Probes, k \in Ks :
                    LET r == query_vector_store(vector_store, provider, q, k, TRUE)
                    IN  /\ r.exc = None
                        /\ Len(r.results) = Min(k, Len(vector_store.vectors))
        /\ vector_store = NoStore =>
              \A q \in Probes, k \in Ks :
                  query_vector_store(vector_store, provider, q, k, TRUE).exc
                      = "ValueError: Vector store not initialized"

\* create_vector_store([]) was called on a service that had built a store of
\* three passages, and the store is in place
C14_Witness ==
    /\ svc.op = "create_vector_store" /\ svc.documents = <<>>
    /\ svc.exc = "ValueError: No documents provided"
    /\ svc.before # NoStore
    /\ vector_store # NoStore /\ Len(vector_store.vectors) = 3

\* ---------------------------------------------------------------------- C15
\* the file of upload p is accepted and parsed, and its text is blank
BlankUpload(p) ==
    /\ req[p].kind = "upload"
    /\ File(req[p].file).filename # ""
    /\ File(req[p].file).ext \in SupportedExtensions
    /\ File(req[p].file).parse = "ok"
    /\ \A i \in 1..Len(File(req[p].file).content) :
          IsSpace(File(req[p].file).content[i])

\* C15: an upload whose parsed text is empty or white space only ends with
\* HTTP 400 "Document appears to be empty"; it has written neither the index
\* nor the document list, no passage of the index and no record of the list
\* is its own.
C15_BlankUploadRefused ==
    \A p \in Procs :
        BlankUpload(p) =>
            /\ req[p].pc \in {"u_await", "done"}
            /\ req[p].writes = {}
            /\ req[p].pc = "done" =>
                  /\ req[p].response.status = 400
                  /\ req[p].response.detail = "Document appears to be empty"
            /\ \A i \in 1..Len(uploaded_documents) :
                  uploaded_documents[i].metadata.upload_timestamp # p
            /\ \A i \in 1..Len(Passages(vector_store)) :
                  vector_store.docstore[i].metadata.upload_timestamp # p

\* an empty file and a file of white space were both refused after an upload
\* had succeeded, whose index and record are in place
C15_Witness ==
    /\ \E p, q \in Procs :
          /\ IsDone(p, "upload") /\ req[p].file = "Empty"
          /\ req[p].response.status = 400
          /\ IsDone(q, "upload") /\ req[q].file = "Blank"
          /\ req[q].response.status = 400
    /\ vector_store # NoStore
    /\ Len(uploaded_documents) = 1

\* ---------------------------------------------------------------------- C16
\* C16: for every input, overlap >= chunk_size included, an iteration of the
\* loop of chunk_text that does not move the start of the next window beyond
\* the start of the window it has just cut ends the loop.
C16_StopsWhenStartFailsToAdvance ==
    [][(c_st.pc = "while" /\ c_st'.start <= c_st.start)
          => c_st'.pc # "while"]_vars

\* ---------------------------------------------------------------------- C17
\* the uploads that succeeded after the last clear, in order of completion
UploadsSinceClear ==
    LET clears == {i \in 1..Len(log) : log[i].kind = "clear"}
        from == IF clears = {} THEN 1
                ELSE (CHOOSE i \in clears : \A j \in clears : j <= i) + 1
    IN  SelectSeq(SubSeq(log, from, Len(log)),
                  LAMBDA e : e.kind = "upload" /\ e.status = 200)

C18_PassagesNonEmpty ==
    \A i \in 1..Len(c_st.chunks) : c_st.chunks[i] # <<>>

\* ---------------------------------------------------------------------- C19
\* the highest element of a non-empty set of positions
Highest(S) == CHOOSE p \in S : \A q \in S : q <= p

\* window w ends where the rule puts it, the window being the characters at
\* the positions w.start .. w.start + chunk_size - 1 that the text has: if the
\* tentative end is before the end of the text and one of the last
\* min(100, chunk_size // 2) of them is a boundary character, the window ends
\* right after the last of these, otherwise at the tentative end
EndsAtBoundaryOfPositions(w) ==
    LET tentative == w.start + c_size
        n == Min(100, c_size \div 2)
        boundaries == {p \in (tentative - n)..(tentative - 1) :
                          /\ p >= w.start /\ p >= 0 /\ p < Len(c_text)
                          /\ IsBoundary(c_text[p + 1])}
    IN  IF tentative < Len(c_text) /\ boundaries # {}
        THEN w.end = Highest(boundaries) + 1
        ELSE w.end = tentative

\* the same rule, the window being Python's text[w.start : w.start + chunk_size],
\* in which a negative bound counts from the end of the text
EndsAtBoundaryOfSlice(w) ==
    LET tentative == w.start + c_size
        n == Min(100, c_size \div 2)
        a == SliceBound(c_text, w.start)
        b == SliceBound(c_text, tentative)
        boundaries == {p \in a..(b - 1) : p >= b - n /\ IsBoundary(c_text[p + 1])}
    IN  IF tentative < Len(c_text) /\ boundaries # {}
        THEN SliceBound(c_text, w.end) = Highest(boundaries) + 1
        ELSE w.end = tentative

\* C19: every window chunk_text cuts ends at the boundary character nearest to
\* its tentative end, if there is one among its last min(100, chunk_size // 2)
\* characters and the tentative end is before the end of the text, and at the
\* tentative end otherwise (under either way of reading a window whose start
\* is below zero).
C19_WindowEndsAtNearestBoundary ==
    \A i \in 1..Len(c_spans) :
        \/ EndsAtBoundaryOfPositions(c_spans[i])
        \/ EndsAtBoundaryOfSlice(c_spans[i])

\* ---------------------------------------------------------------------- C20
\* the entries of the index that come from the document of upload p
EntriesOf(p) ==
    {i \in 1..Len(Passages(vector_store)) :
        vector_store.docstore[i].metadata.upload_timestamp = p}

\* C20: the n passages of every document of the index carry the chunk ids
\* 0 .. n-1 in their order and total_chunks = n; an upload that succeeded
\* reported chunks_created = n >= 1, its record has chunks = n, and n is the
\* number of its passages in the index, which is its own until the next
\* upload or clear.
C20_ChunkIdsAndCounts ==
    /\ \A i \in 1..Len(Passages(vector_store)) :
          LET m == vector_store.docstore[i].metadata
              mine == EntriesOf(m.upload_timestamp)
          IN  /\ m.total_chunks = Cardinality(mine)
              /\ m.chunk_id = Cardinality({j \in mine : j < i})
    /\ \A p \in Procs :
          (IsDone(p, "upload") /\ req[p].response.status = 200) =>
             /\ req[p].response.chunks_created >= 1
             /\ \A i \in 1..Len(uploaded_documents) :
                   uploaded_documents[i].metadata.upload_timestamp = p
                       => uploaded_documents[i].chunks
                             = req[p].response.chunks_created
             /\ EntriesOf(p) # {} =>
                   Cardinality(EntriesOf(p)) = req[p].response.chunks_created
             /\ (running = Nobody /\ log # <<>> /\ log[Len(log)].p = p)
                   => EntriesOf(p) # {}

\* the upload of a document of two passages has just succeeded: it reported
\* chunks_created = 2, its record says 2, the index has its passages 0 and 1
C20_Witness ==
    \E p \in Procs :
        /\ IsDone(p, "upload") /\ req[p].response.status = 200
        /\ req[p].response.chunks_created = 2
        /\ log[Len(log)].p = p
        /\ uploaded_documents[Len(uploaded_documents)].chunks = 2
        /\ Len(vector_store.docstore) = 2
        /\ vector_store.docstore[1].metadata.chunk_id = 0
        /\ vector_store.docstore[2].metadata.chunk_id = 1
        /\ vector_store.docstore[2].metadata.total_chunks = 2

\* ---------------------------------------------------------------------- C21
\* one part of the context: the passage after its source
ContextPart(passage) ==
    <<"[Source: ", passage.metadata.source, "]\n">> \o passage.page_content

\* the response of a query describes the entries ids[1], ..., ids[n] of the
\* index vs, in that order, in its sources and in its context
Describes(resp, vs, qv, ids) ==
    /\ \A i, j \in 1..Len(ids) :
          i < j => /\ ids[i] # ids[j]
                   /\ L2(qv, vs.vectors[ids[i] + 1]) <= L2(qv, vs.vectors[ids[j] + 1])
    /\ \A i \in 1..Len(ids) :
          /\ resp.sources[i].source = vs.docstore[ids[i] + 1].metadata.source
          /\ resp.sources[i].chunk_id = vs.docstore[ids[i] + 1].metadata.chunk_id
          /\ resp.sources[i].similarity_score = L2(qv, vs.vectors[ids[i] + 1])
    /\ resp.context = Join([i \in 1..Len(ids) |-> ContextPart(vs.docstore[ids[i] + 1])])

\* C21: the context and the sources of a successful query describe the same
\* passages of the index in the same order of ascending distance: the context
\* is the join, by the delimiter, of "[Source: <source>]" and a newline and the
\* text of the i-th result, and sources[i] has the source, the chunk id and
\* the distance of that i-th result. (Stated while the index the query
\* searched is still in place.)
C21_ContextMatchesSources ==
    \A p \in Procs :
        (/\ IsDone(p, "query") /\ req[p].response.status = 200
         /\ vector_store # NoStore /\ vector_store.gen = req[p].src_gen) =>
            /\ Len(req[p].response.sources) = req[p].response.n_sources
            /\ \E ids \in [1..req[p].response.n_sources -> EntryIds(vector_store)] :
                  Describes(req[p].response, vector_store,
                            Embed(provider, req[p].query), ids)

\* a query got two passages of different texts, and its context has the two
\* parts and the delimiter between them
C21_Witness ==
    \E p \in Procs :
        /\ IsDone(p, "query") /\ req[p].response.status = 200
        /\ vector_store # NoStore /\ vector_store.gen = req[p].src_gen
        /\ req[p].response.n_sources = 2
        /\ vector_store.docstore[1].page_content # vector_store.docstore[2].page_content
        /\ \E i \in 1..Len(req[p].response.context) :
              req[p].response.context[i] = "\n\n---\n\n"

\* ---------------------------------------------------------------------- C22
\* the vectors of the index vs all have the dimension d
OneDimension(vs, d) == \A i \in 1..Len(vs.vectors) : vs.vectors[i].dim = d

\* C22: the provider chosen at the construction of the service never changes,
\* and in every state the vectors of the index, whatever its generation, and
\* the query vectors of the searches of every successful query are vectors
\* of that provider, so that all of them have its one dimension.
C22_OneProviderOneDimension ==
    /\ [][provider' = provider]_vars
    /\ [](/\ vector_store # NoStore =>
               /\ OneDimension(vector_store, EmbeddingDimension(provider))
               /\ \A i \in 1..Len(vector_store.vectors) :
                     vector_store.vectors[i]
                        = Embed(provider, vector_store.docstore[i].page_content)
          /\ \A p \in Procs :
                (IsDone(p, "query") /\ req[p].response.status = 200) =>
                    req[p].qv_dims = {EmbeddingDimension(provider)})

\* with the remote provider, a query searched the second generation of the
\* index, one of two vectors
C22_Witness ==
    /\ provider = "openai"
    /\ vector_store # NoStore
    /\ vector_store.gen >= 2
    /\ Len(vector_store.vectors) = 2
    /\ \E p \in Procs :
          /\ IsDone(p, "query") /\ req[p].response.status = 200
          /\ req[p].src_gen = vector_store.gen
          /\ req[p].qv_dims = {1536}

\* ---------------------------------------------------------------------- C23
\* the text has no white space around it and ends with a full stop, "!" or
\* "?" unless it is empty
PostProcessed(a) ==
    /\ a = strip(a)
    /\ a # <<>> => IsTerminal(a[Len(a)])

\* C23: generate_answer never raises and returns a string. Without a pipeline
\* it returns the "not available" message, whatever the context; with a
\* pipeline and a blank context it returns the "don't have enough context"
\* message and does not call the pipeline; otherwise it calls the pipeline
\* once and returns the post-processed text, or an apology with the text of
\* the error if the pipeline raised. The loading of the model tries the
\* primary model and, only if that failed, the fallback model once.
C23_AnswerPrecedence ==
    /\ ag.pc = "ready" =>
          /\ ag.loads = IF ag.primary_ok THEN <<PrimaryModel>>
                        ELSE <<PrimaryModel, FallbackModel>>
          /\ ag.pipeline = IF ag.primary_ok THEN PrimaryModel
                           ELSE IF ag.fallback_ok THEN FallbackModel ELSE None
    /\ ag.op = "generate_answer" =>
          /\ ag.exc = None
          /\ ag.value \in Seq({ag.value[i] : i \in 1..Len(ag.value)})
          /\ IF ag.pipeline = None
             THEN ag.value = NotAvailable /\ ag.pipeline_calls = 0
             ELSE IF \A i \in 1..Len(ag.context) : IsSpace(ag.context[i])
             THEN ag.value = NotEnoughContext /\ ag.pipeline_calls = 0
             ELSE /\ ag.pipeline_calls = 1
                  /\ IF ag.outcome.raises
                     THEN /\ ag.value[1] = Apology("")[1]
                          /\ \E i \in 1..Len(ag.value) : ag.value[i] = ag.outcome.error
                     ELSE /\ ag.value = post_process_answer(strip(ag.outcome.text))
                          /\ PostProcessed(ag.value)

\* the primary model failed to load and the fallback model loaded; called
\* with a context that is not blank, the pipeline raised and the answer is
\* the apology with the text of its error
C23_Witness ==
    /\ ag.loads = <<PrimaryModel, FallbackModel>>
    /\ ag.pipeline = FallbackModel
    /\ ag.op = "generate_answer"
    /\ ag.context = <<"a", ".">>
    /\ ag.pipeline_calls = 1
    /\ ag.outcome.raises
    /\ ag.value = Apology("Model error")

\* ---------------------------------------------------------------------- C24
\* C24: when an upload has returned, with a response or with an error, the
\* temporary file it created is no longer on disk, whatever the path it
\* took: success, blank document, parse failure, build failure, or a failure
\* of the read of the uploaded bytes or of their write to the temporary file.
C24_TempFilesRemoved ==
    \A p \in Procs :
        (req[p].kind = "upload" /\ req[p].pc = "done") => p \notin temp_files

====
